---- MODULE Spec2Model ----
(***************************************************************************)
(* Model of the mail forwarder (src/src/forward.ts): startup validation,   *)
(* the sender filter, one pass over the unseen messages (processUnseen),   *)
(* the daemon poll loop with its overlap guard, and shutdown.              *)
(*                                                                         *)
(* Strings are sequences of one-character strings.  Every await of the     *)
(* code is a point where the model may interleave other callbacks (timer,  *)
(* signal), arrivals in the mailbox and the loss of the connection.        *)
(***************************************************************************)
EXTENDS Integers, Sequences, FiniteSets, TLC

\* ---------------------------------------------------------------- bounds
\* Number of message UIDs the mailbox may ever hold.
MaxUid == 2
\* Number of scheduled polls that may start a pass.
MaxPasses == 2
\* Number of required settings that may be missing at startup.
MaxMissing == 2
\* Longest sender address / raw allow-list string of the filter probe.
MaxAddrLen == 4
MaxAllowLen == 3
\* Largest number of attachments of a message in the relay probe.
MaxAttach == 2

UIDs == 1..MaxUid

VARIABLES
    env,                    \* process.env restricted to the required settings
    ALLOWED_SENDER_DOMAINS, \* raw value of the optional setting ("" = unset)
    DAEMON,                 \* daemon-mode flag
    mainPc,                 \* position of main()
    exitStatus,             \* "running", "exit0", "exit1", "killed"
    diagnostic,             \* names printed by console.error at validation
    connectAttempted,       \* client.connect() was called
    session,                \* state of the ImapFlow client
    busy,                   \* overlap guard of poll
    timerActive,            \* the setInterval timer exists and is not cleared
    shutdownPc,             \* "idle", "logout" (shutdown awaits client.logout)
    runs,                   \* activations of processUnseen in flight
    mbox,                   \* UID -> "absent", "unseen", "seen", "deleted"
    content,                \* UID -> raw content (decodable?, sender)
    outcome,                \* UID -> terminal state of its latest attempt
    accepted,               \* UID -> number of successful relay sends
    passes,                 \* number of scheduled passes started
    pollLog,                \* what the last timer callback logged
    lastPass,               \* how the last finished pass ended
    probe                   \* input and result of a pure-function probe

vars == <<env, ALLOWED_SENDER_DOMAINS, DAEMON, mainPc, exitStatus, diagnostic,
          connectAttempted, session, busy, timerActive, shutdownPc, runs,
          mbox, content, outcome, accepted, passes, pollLog, lastPass, probe>>

configVars == <<env, ALLOWED_SENDER_DOMAINS, DAEMON>>
mailVars == <<mbox, content, outcome, accepted>>

\* --------------------------------------------------------------- strings
\* String.prototype.toLowerCase on the model's alphabet.
LowerChar(c) == CASE c = "A" -> "a" [] c = "B" -> "b" [] OTHER -> c

toLowerCase(s) == [i \in DOMAIN s |-> LowerChar(s[i])]

\* Index of the first occurrence of character c in s, 0 if none.
IndexOf(s, c) ==
    IF \E i \in DOMAIN s : s[i] = c
    THEN CHOOSE i \in DOMAIN s : s[i] = c /\ \A j \in 1..(i-1) : s[j] # c
    ELSE 0

\* String.prototype.split(sep) for a one-character separator.
RECURSIVE split(_, _)
split(s, sep) ==
    LET i == IndexOf(s, sep) IN
    IF i = 0 THEN <<s>>
    ELSE <<SubSeq(s, 1, i - 1)>> \o split(SubSeq(s, i + 1, Len(s)), sep)

\* String.prototype.trim: drops leading and trailing blanks.
RECURSIVE trim(_)
trim(s) ==
    IF s = <<>> THEN s
    ELSE IF Head(s) = " " THEN trim(Tail(s))
    ELSE IF s[Len(s)] = " " THEN trim(SubSeq(s, 1, Len(s) - 1))
    ELSE s

\* Array.prototype.includes
includes(arr, x) == \E i \in DOMAIN arr : arr[i] = x

\* Strings over alphabet A of length at most n.
RECURSIVE StringsUpTo(_, _)
StringsUpTo(A, n) ==
    IF n = 0 THEN {<<>>}
    ELSE LET shorter == StringsUpTo(A, n - 1) IN
         shorter \cup {Append(s, c) : s \in {t \in shorter : Len(t) = n - 1}, c \in A}

\* ------------------------------------------------------------ validation
requiredVars ==
    <<"IMAP_HOST", "IMAP_PORT", "IMAP_USER", "IMAP_PASSWORD", "SMTP_HOST",
      "SMTP_PORT", "SMTP_USER", "SMTP_PASSWORD", "FORWARD_TO", "FORWARD_FROM">>

RequiredNames == {requiredVars[i] : i \in DOMAIN requiredVars}

\* !process.env[varName]: an unset variable and an empty one are both falsy.
IsFalsy(v) == v # "set"

\* Variant: the last required setting is not checked.
missingVars_SkipsLast ==
    SelectSeq(SubSeq(requiredVars, 1, Len(requiredVars) - 1),
              LAMBDA v : IsFalsy(env[v]))

\* requiredVars.filter((varName) => !process.env[varName])
missingVars == SelectSeq(requiredVars, LAMBDA v : IsFalsy(env[v]))

\* The environments the model starts from: at most MaxMissing required
\* settings are unset or empty.
Environments ==
    {e \in [RequiredNames -> {"set", "unset", "empty"}] :
        Cardinality({v \in RequiredNames : e[v] # "set"}) <= MaxMissing}

\* ---------------------------------------------------------- sender filter
\* email.from?.value?.[0]?.address || email.from?.text || ''
fromAddressOf(email) ==
    IF email.from.address # <<>> THEN email.from.address ELSE email.from.text

\* fromAddress.split('@')[1]?.toLowerCase(); undefined is modelled as "".
senderDomainOf(fromAddress) ==
    LET parts == split(fromAddress, "@") IN
    IF Len(parts) >= 2 THEN toLowerCase(parts[2]) ELSE <<>>

\* ALLOWED_SENDER_DOMAINS.split(',').map(trim, toLowerCase).filter(nonempty)
allowedDomainsOf(raw) ==
    LET parts == split(raw, ",")
        mapped == [i \in DOMAIN parts |-> toLowerCase(trim(parts[i]))]
    IN SelectSeq(mapped, LAMBDA d : Len(d) > 0)

shouldForwardEmail(email) ==
    IF ALLOWED_SENDER_DOMAINS = <<>> THEN TRUE
    ELSE LET fromAddress == fromAddressOf(email) IN
         IF fromAddress = <<>> THEN FALSE
         ELSE LET senderDomain == senderDomainOf(fromAddress) IN
              IF senderDomain = <<>> THEN FALSE
              ELSE includes(allowedDomainsOf(ALLOWED_SENDER_DOMAINS), senderDomain)

\* ------------------------------------------------------- message contents
Addr(s) == [address |-> s, text |-> <<>>]

\* Raw contents a mailbox message may have in the process model: two that
\* decode (senders at domains "b" and "a") and one that does not.
Contents ==
    { [malformed |-> FALSE, from |-> Addr(<<"a", "@", "B">>)],
      [malformed |-> FALSE, from |-> Addr(<<"b", "@", "a">>)],
      [malformed |-> TRUE,  from |-> Addr(<<>>)] }

NoContent == [malformed |-> TRUE, from |-> Addr(<<>>)]

\* Values of ALLOWED_SENDER_DOMAINS in the process model: unset, or "b ,".
AllowSettings == { <<>>, <<"b", " ", ",">> }

NoProbe == [email |-> [from |-> Addr(<<>>)], result |-> "none"]

NoPass == [kind |-> "none", msgs |-> <<>>, result |-> "none"]

\* ------------------------------------------------------------------ Init
Init ==
    /\ env \in Environments
    /\ ALLOWED_SENDER_DOMAINS \in AllowSettings
    /\ DAEMON \in BOOLEAN
    /\ mainPc = "start"
    /\ exitStatus = "running"
    /\ diagnostic = <<>>
    /\ connectAttempted = FALSE
    /\ session = "none"
    /\ busy = FALSE
    /\ timerActive = FALSE
    /\ shutdownPc = "idle"
    /\ runs = <<>>
    /\ mbox = [u \in UIDs |-> "absent"]
    /\ content = [u \in UIDs |-> NoContent]
    /\ outcome = [u \in UIDs |-> "none"]
    /\ accepted = [u \in UIDs |-> 0]
    /\ passes = 0
    /\ pollLog = "none"
    /\ lastPass = NoPass
    /\ probe = NoProbe

Running == exitStatus = "running"

\* ------------------------------------------------------------ environment
\* A new message is delivered to the source mailbox.
Arrive(u, c) ==
    /\ Running
    /\ mbox[u] = "absent"
    /\ \A v \in UIDs : v < u => mbox[v] # "absent"
    /\ mbox' = [mbox EXCEPT ![u] = "unseen"]
    /\ content' = [content EXCEPT ![u] = c]
    /\ UNCHANGED <<configVars, mainPc, exitStatus, diagnostic, connectAttempted,
                   session, busy, timerActive, shutdownPc, runs, outcome,
                   accepted, passes, pollLog, lastPass, probe>>

\* The connection to the IMAP server drops.  The client may or may not keep
\* its record of the selected mailbox ("stale" keeps it, "closed" does not).
ConnectionLost(keepsMailbox) ==
    /\ Running
    /\ session \in {"connected", "selected"}
    /\ session' = IF keepsMailbox /\ session = "selected" THEN "stale" ELSE "closed"
    /\ UNCHANGED <<configVars, mainPc, exitStatus, diagnostic, connectAttempted,
                   busy, timerActive, shutdownPc, runs, mailVars, passes,
                   pollLog, lastPass, probe>>

\* client.mailbox && client.mailbox.path === 'INBOX'
MailboxSelected == session \in {"selected", "stale"}

\* A mailbox command can succeed only on a live session with INBOX selected.
MailboxUsable == session = "selected"

\* ------------------------------------------------------------------ main
\* main() up to its first await: validateEnvironmentVariables(), then the
\* client is created and client.connect() is called.
Main ==
    /\ Running
    /\ mainPc = "start"
    /\ IF Len(missingVars) > 0
       THEN /\ diagnostic' = missingVars
            /\ exitStatus' = "exit1"
            /\ mainPc' = "exited"
            /\ UNCHANGED connectAttempted
       ELSE /\ connectAttempted' = TRUE
            /\ mainPc' = "connecting"
            /\ UNCHANGED <<diagnostic, exitStatus>>
    /\ UNCHANGED <<configVars, session, busy, timerActive, shutdownPc, runs,
                   mailVars, passes, pollLog, lastPass, probe>>

\* await client.connect() settles; on success client.mailboxOpen('INBOX')
\* is called, on failure main's catch block calls client.logout().
ConnectDone(ok) ==
    /\ Running
    /\ mainPc = "connecting"
    /\ IF ok
       THEN session' = "connected" /\ mainPc' = "opening"
       ELSE session' = "closed" /\ mainPc' = "catch"
    /\ UNCHANGED <<configVars, exitStatus, diagnostic, connectAttempted, busy,
                   timerActive, shutdownPc, runs, mailVars, passes, pollLog,
                   lastPass, probe>>

\* A fresh activation of processUnseen, up to its first await: mailboxOpen
\* when INBOX is not the selected mailbox, otherwise fetchAll.
NewRun(kind, selected) ==
    [kind |-> kind, pc |-> IF selected THEN "fetching" ELSE "opening",
     msgs |-> <<>>, idx |-> 0, sendOk |-> FALSE]

\* await client.mailboxOpen('INBOX') of main settles; on success the
\* startup pass begins.
OpenInboxDone(ok) ==
    /\ Running
    /\ mainPc = "opening"
    /\ ok => session = "connected"
    /\ IF ok
       THEN /\ session' = "selected"
            /\ mainPc' = "initial"
            /\ runs' = Append(runs, NewRun("startup", TRUE))
       ELSE /\ mainPc' = "catch"
            /\ UNCHANGED <<session, runs>>
    /\ UNCHANGED <<configVars, exitStatus, diagnostic, connectAttempted, busy,
                   timerActive, shutdownPc, mailVars, passes, pollLog,
                   lastPass, probe>>

\* ------------------------------------------------------- end of a pass
RemoveAt(seq, i) == SubSeq(seq, 1, i - 1) \o SubSeq(seq, i + 1, Len(seq))

\* Variant: poll clears the guard only in its catch block, not after a
\* pass that returned.
PassReturns_KeepsGuard(i) ==
    /\ runs' = RemoveAt(runs, i)
    /\ lastPass' = [kind |-> runs[i].kind, msgs |-> runs[i].msgs, result |-> "complete"]
    /\ IF runs[i].kind = "startup"
       THEN IF DAEMON
            THEN mainPc' = "daemon" /\ busy' = FALSE /\ timerActive' = TRUE
            ELSE mainPc' = "logout" /\ UNCHANGED <<busy, timerActive>>
       ELSE UNCHANGED <<busy, mainPc, timerActive>>

\* processUnseen returns.  The startup pass resumes main: in daemon mode the
\* guard, the timer and the signal handlers are set up, otherwise
\* client.logout() is called.  A scheduled pass resumes poll, whose finally
\* block clears the guard.
PassReturns(i) ==
    /\ runs' = RemoveAt(runs, i)
    /\ lastPass' = [kind |-> runs[i].kind, msgs |-> runs[i].msgs, result |-> "complete"]
    /\ IF runs[i].kind = "startup"
       THEN IF DAEMON
            THEN mainPc' = "daemon" /\ busy' = FALSE /\ timerActive' = TRUE
            ELSE mainPc' = "logout" /\ UNCHANGED <<busy, timerActive>>
       ELSE busy' = FALSE /\ UNCHANGED <<mainPc, timerActive>>

\* Variant: poll has no finally block, so an error leaves the guard set.
PassThrows_NoFinally(i) ==
    /\ runs' = RemoveAt(runs, i)
    /\ lastPass' = [kind |-> runs[i].kind, msgs |-> runs[i].msgs, result |-> "error"]
    /\ IF runs[i].kind = "startup"
       THEN mainPc' = "catch" /\ UNCHANGED <<busy, timerActive>>
       ELSE UNCHANGED <<busy, mainPc, timerActive>>

\* processUnseen throws.  From the startup pass the error reaches main's
\* catch block (client.logout(), then exit 1); from a scheduled pass it is
\* caught by poll, whose finally block clears the guard.
PassThrows(i) ==
    /\ runs' = RemoveAt(runs, i)
    /\ lastPass' = [kind |-> runs[i].kind, msgs |-> runs[i].msgs, result |-> "error"]
    /\ IF runs[i].kind = "startup"
       THEN mainPc' = "catch" /\ UNCHANGED <<busy, timerActive>>
       ELSE busy' = FALSE /\ UNCHANGED <<mainPc, timerActive>>

\* The unseen messages of the mailbox, in UID order.
RECURSIVE UnseenFrom(_)
UnseenFrom(u) ==
    IF u > MaxUid THEN <<>>
    ELSE (IF mbox[u] = "unseen" THEN <<u>> ELSE <<>>) \o UnseenFrom(u + 1)

\* Variant: the loop lists the unseen messages again after every message
\* and goes on with the first message of the new listing that lies after
\* the current position.
Advance_Refetches(i) ==
    LET again == UnseenFrom(1) IN
    IF runs[i].idx < Len(again)
    THEN /\ runs' = [runs EXCEPT ![i].msgs = again, ![i].idx = @ + 1,
                                 ![i].pc = "parsing", ![i].sendOk = FALSE]
         /\ UNCHANGED <<mainPc, busy, timerActive, lastPass>>
    ELSE PassReturns(i)

\* The for loop moves to the next message of the snapshot and calls
\* simpleParser on it, or the pass returns after the last one.
Advance(i) ==
    IF runs[i].idx < Len(runs[i].msgs)
    THEN /\ runs' = [runs EXCEPT ![i].idx = @ + 1, ![i].pc = "parsing",
                                 ![i].sendOk = FALSE]
         /\ UNCHANGED <<mainPc, busy, timerActive, lastPass>>
    ELSE PassReturns(i)

\* The message the activation is working on.
Cur(i) == runs[i].msgs[runs[i].idx]

\* ---------------------------------------------------------- processUnseen
\* await client.mailboxOpen('INBOX') of processUnseen settles.
PassOpenDone(i, ok) ==
    /\ Running
    /\ runs[i].pc = "opening"
    /\ ok => session = "connected"
    /\ IF ok
       THEN /\ session' = "selected"
            /\ runs' = [runs EXCEPT ![i].pc = "fetching"]
            /\ UNCHANGED <<mainPc, busy, timerActive, lastPass>>
       ELSE /\ PassThrows(i)
            /\ UNCHANGED session
    /\ UNCHANGED <<configVars, exitStatus, diagnostic, connectAttempted,
                   shutdownPc, mailVars, passes, pollLog, probe>>

\* await client.fetchAll({ seen: false }, ...) settles: the snapshot of the
\* pass.  An empty snapshot ends the pass, otherwise the loop starts.
FetchDone(i, ok) ==
    /\ Running
    /\ runs[i].pc = "fetching"
    /\ ok => MailboxUsable
    /\ IF ok
       THEN LET messages == UnseenFrom(1) IN
            IF Len(messages) = 0
            THEN PassReturns(i) /\ UNCHANGED outcome
            ELSE /\ runs' = [runs EXCEPT ![i].msgs = messages, ![i].idx = 1,
                                         ![i].pc = "parsing"]
                 /\ outcome' = [u \in UIDs |->
                                  IF includes(messages, u) THEN "none" ELSE outcome[u]]
                 /\ UNCHANGED <<mainPc, busy, timerActive, lastPass>>
       ELSE PassThrows(i) /\ UNCHANGED outcome
    /\ UNCHANGED <<configVars, exitStatus, diagnostic, connectAttempted,
                   session, shutdownPc, mbox, content, accepted, passes,
                   pollLog, probe>>

\* Variant: the message is deleted before it is forwarded.
ParseDone_DeleteFirst(i) ==
    /\ Running
    /\ runs[i].pc = "parsing"
    /\ LET u == Cur(i) IN
       IF content[u].malformed
       THEN /\ outcome' = [outcome EXCEPT ![u] = "DecodeFailed"]
            /\ Advance(i)
       ELSE /\ runs' = [runs EXCEPT ![i].pc =
                          IF shouldForwardEmail(content[u]) THEN "deleting" ELSE "flagging"]
            /\ UNCHANGED <<outcome, mainPc, busy, timerActive, lastPass>>
    /\ UNCHANGED <<configVars, exitStatus, diagnostic, connectAttempted,
                   session, shutdownPc, mbox, content, accepted, passes,
                   pollLog, probe>>

\* Variant: the decode is outside the try block, so its error ends the pass.
ParseDone_Uncaught(i) ==
    /\ Running
    /\ runs[i].pc = "parsing"
    /\ LET u == Cur(i) IN
       IF content[u].malformed
       THEN /\ PassThrows(i)
            /\ UNCHANGED outcome
       ELSE /\ runs' = [runs EXCEPT ![i].pc =
                          IF shouldForwardEmail(content[u]) THEN "sending" ELSE "flagging"]
            /\ UNCHANGED <<outcome, mainPc, busy, timerActive, lastPass>>
    /\ UNCHANGED <<configVars, exitStatus, diagnostic, connectAttempted,
                   session, shutdownPc, mbox, content, accepted, passes,
                   pollLog, probe>>

\* Variant: the filter's verdict is ignored and every decoded message is
\* forwarded.
ParseDone_NoFilter(i) ==
    /\ Running
    /\ runs[i].pc = "parsing"
    /\ LET u == Cur(i) IN
       IF content[u].malformed
       THEN /\ outcome' = [outcome EXCEPT ![u] = "DecodeFailed"]
            /\ Advance(i)
       ELSE /\ runs' = [runs EXCEPT ![i].pc = "sending"]
            /\ UNCHANGED <<outcome, mainPc, busy, timerActive, lastPass>>
    /\ UNCHANGED <<configVars, exitStatus, diagnostic, connectAttempted,
                   session, shutdownPc, mbox, content, accepted, passes,
                   pollLog, probe>>

\* await simpleParser(msg.source) settles.  A decode error is caught and the
\* loop goes on; otherwise the filter decides between messageFlagsAdd and
\* forwardMail, which is called next.
ParseDone(i) ==
    /\ Running
    /\ runs[i].pc = "parsing"
    /\ LET u == Cur(i) IN
       IF content[u].malformed
       THEN /\ outcome' = [outcome EXCEPT ![u] = "DecodeFailed"]
            /\ Advance(i)
       ELSE /\ runs' = [runs EXCEPT ![i].pc =
                          IF shouldForwardEmail(content[u]) THEN "sending" ELSE "flagging"]
            /\ UNCHANGED <<outcome, mainPc, busy, timerActive, lastPass>>
    /\ UNCHANGED <<configVars, exitStatus, diagnostic, connectAttempted,
                   session, shutdownPc, mbox, content, accepted, passes,
                   pollLog, probe>>

\* await client.messageFlagsAdd({ uid }, ['\\Seen']) settles (filtered mail).
FlagDone(i, ok) ==
    /\ Running
    /\ runs[i].pc = "flagging"
    /\ ok => MailboxUsable
    /\ LET u == Cur(i) IN
       IF ok
       THEN /\ mbox' = [mbox EXCEPT ![u] = IF @ = "unseen" THEN "seen" ELSE @]
            /\ outcome' = [outcome EXCEPT ![u] = "SeenMarked"]
       ELSE /\ outcome' = [outcome EXCEPT ![u] = "FlagFailed"]
            /\ UNCHANGED mbox
    /\ Advance(i)
    /\ UNCHANGED <<configVars, exitStatus, diagnostic, connectAttempted,
                   session, shutdownPc, content, accepted, passes, pollLog, probe>>

\* The successful sends of a message are counted as none, one, or two and
\* more.
CountUp(n) == IF n < 2 THEN n + 1 ELSE n

\* Variant: the catch block marks the message seen when the send failed.
SendDone_MarksSeenOnFailure(i, ok) ==
    /\ Running
    /\ runs[i].pc = "sending"
    /\ LET u == Cur(i) IN
       IF ok
       THEN /\ accepted' = [accepted EXCEPT ![u] = CountUp(@)]
            /\ runs' = [runs EXCEPT ![i].pc = "deleting", ![i].sendOk = TRUE]
            /\ UNCHANGED <<outcome, mbox, mainPc, busy, timerActive, lastPass>>
       ELSE /\ outcome' = [outcome EXCEPT ![u] = "SendFailed"]
            /\ mbox' = [mbox EXCEPT ![u] = "seen"]
            /\ Advance(i)
            /\ UNCHANGED accepted
    /\ UNCHANGED <<configVars, exitStatus, diagnostic, connectAttempted,
                   session, shutdownPc, content, passes, pollLog, probe>>

\* await forwardMail(...) settles: transporter.sendMail resolved (the relay
\* accepted the message; messageDelete is called next) or threw (re-thrown
\* by forwardMail and caught by the loop).
SendDone(i, ok) ==
    /\ Running
    /\ runs[i].pc = "sending"
    /\ LET u == Cur(i) IN
       IF ok
       THEN /\ accepted' = [accepted EXCEPT ![u] = CountUp(@)]
            /\ runs' = [runs EXCEPT ![i].pc = "deleting", ![i].sendOk = TRUE]
            /\ UNCHANGED <<outcome, mainPc, busy, timerActive, lastPass>>
       ELSE /\ outcome' = [outcome EXCEPT ![u] = "SendFailed"]
            /\ Advance(i)
            /\ UNCHANGED accepted
    /\ UNCHANGED <<configVars, exitStatus, diagnostic, connectAttempted,
                   session, shutdownPc, mbox, content, passes, pollLog, probe>>

\* await client.messageDelete({ uid }) settles.  A failure is caught by the
\* loop, which only logs it.
DeleteDone(i, ok) ==
    /\ Running
    /\ runs[i].pc = "deleting"
    /\ ok => MailboxUsable
    /\ LET u == Cur(i) IN
       IF ok
       THEN /\ mbox' = [mbox EXCEPT ![u] = "deleted"]
            /\ outcome' = [outcome EXCEPT ![u] = "Deleted"]
       ELSE /\ outcome' = [outcome EXCEPT ![u] = "DeleteFailed"]
            /\ UNCHANGED mbox
    /\ Advance(i)
    /\ UNCHANGED <<configVars, exitStatus, diagnostic, connectAttempted,
                   session, shutdownPc, content, accepted, passes, pollLog, probe>>

\* ------------------------------------------------------------- scheduler
\* Variant: poll without the overlap guard.
poll_NoGuard ==
    /\ Running
    /\ timerActive
    /\ passes < MaxPasses
    /\ busy' = TRUE
    /\ pollLog' = "started"
    /\ runs' = Append(runs, NewRun("scheduled", MailboxSelected))
    /\ passes' = passes + 1
    /\ UNCHANGED <<configVars, mainPc, exitStatus, diagnostic, connectAttempted,
                   session, timerActive, shutdownPc, mailVars, lastPass, probe>>

\* The setInterval callback: skipped while a poll is running, otherwise it
\* sets the guard and starts a pass.  The bounded process counts its
\* scheduled passes and starts at most MaxPasses of them; the unbounded one
\* does not count.
PollStep(bounded) ==
    /\ Running
    /\ timerActive
    /\ busy \/ ~bounded \/ passes < MaxPasses
    /\ IF busy
       THEN /\ pollLog' = "skipped"
            /\ UNCHANGED <<busy, runs, passes>>
       ELSE /\ busy' = TRUE
            /\ pollLog' = "started"
            /\ runs' = Append(runs, NewRun("scheduled", MailboxSelected))
            /\ passes' = IF bounded THEN passes + 1 ELSE passes
    /\ UNCHANGED <<configVars, mainPc, exitStatus, diagnostic, connectAttempted,
                   session, timerActive, shutdownPc, mailVars, lastPass, probe>>

poll == PollStep(TRUE)

pollForever == PollStep(FALSE)

\* SIGTERM or SIGINT is delivered.  Once main has installed its handlers the
\* signal runs shutdown(0) up to its await: the timer is cleared and
\* client.logout() is called.  Before that the signal's default action ends
\* the process.
Signal ==
    /\ Running
    /\ IF mainPc = "daemon"
       THEN /\ timerActive' = FALSE
            /\ shutdownPc' = "logout"
            /\ UNCHANGED exitStatus
       ELSE /\ exitStatus' = "killed"
            /\ UNCHANGED <<timerActive, shutdownPc>>
    /\ UNCHANGED <<configVars, mainPc, diagnostic, connectAttempted, session,
                   busy, runs, mailVars, passes, pollLog, lastPass, probe>>

\* Variant: shutdown does not catch the error of client.logout().
ShutdownLogoutDone_Rethrows(ok) ==
    /\ Running
    /\ shutdownPc = "logout"
    /\ session' = IF ok THEN "closed" ELSE session
    /\ shutdownPc' = "done"
    /\ exitStatus' = IF ok THEN "exit0" ELSE "exit1"
    /\ UNCHANGED <<configVars, mainPc, diagnostic, connectAttempted, busy,
                   timerActive, runs, mailVars, passes, pollLog, lastPass, probe>>

\* await client.logout() of shutdown settles: its error is swallowed and
\* process.exit(0) follows either way.
ShutdownLogoutDone(ok) ==
    /\ Running
    /\ shutdownPc = "logout"
    /\ session' = IF ok THEN "closed" ELSE session
    /\ shutdownPc' = "done"
    /\ exitStatus' = "exit0"
    /\ UNCHANGED <<configVars, mainPc, diagnostic, connectAttempted, busy,
                   timerActive, runs, mailVars, passes, pollLog, lastPass, probe>>

\* await client.logout() of the non-daemon branch settles: exit 0, or the
\* error reaches main's catch block.
MainLogoutDone(ok) ==
    /\ Running
    /\ mainPc = "logout"
    /\ IF ok
       THEN session' = "closed" /\ exitStatus' = "exit0" /\ mainPc' = "exited"
       ELSE mainPc' = "catch" /\ UNCHANGED <<session, exitStatus>>
    /\ UNCHANGED <<configVars, diagnostic, connectAttempted, busy, timerActive,
                   shutdownPc, runs, mailVars, passes, pollLog, lastPass, probe>>

\* await client.logout() of main's catch block settles: exit 1 either way.
CatchLogoutDone(ok) ==
    /\ Running
    /\ mainPc = "catch"
    /\ session' = IF ok THEN "closed" ELSE session
    /\ exitStatus' = "exit1"
    /\ mainPc' = "exited"
    /\ UNCHANGED <<configVars, diagnostic, connectAttempted, busy, timerActive,
                   shutdownPc, runs, mailVars, passes, pollLog, lastPass, probe>>

\* ------------------------------------------------------------------ Next
Next ==
    \/ Main
    \/ \E ok \in BOOLEAN : ConnectDone(ok)
    \/ \E ok \in BOOLEAN : OpenInboxDone(ok)
    \/ \E i \in DOMAIN runs, ok \in BOOLEAN : PassOpenDone(i, ok)
    \/ \E i \in DOMAIN runs, ok \in BOOLEAN : FetchDone(i, ok)
    \/ \E i \in DOMAIN runs : ParseDone(i)
    \/ \E i \in DOMAIN runs, ok \in BOOLEAN : FlagDone(i, ok)
    \/ \E i \in DOMAIN runs, ok \in BOOLEAN : SendDone(i, ok)
    \/ \E i \in DOMAIN runs, ok \in BOOLEAN : DeleteDone(i, ok)
    \/ poll
    \/ Signal
    \/ \E ok \in BOOLEAN : ShutdownLogoutDone(ok)
    \/ \E ok \in BOOLEAN : MainLogoutDone(ok)
    \/ \E ok \in BOOLEAN : CatchLogoutDone(ok)
    \/ \E u \in UIDs, c \in Contents : Arrive(u, c)
    \/ \E k \in BOOLEAN : ConnectionLost(k)

Spec == Init /\ [][Next]_vars

\* --------------------------------------------------- the daemon at work
\* The daemon with every setting present, a session that stays usable and
\* no termination signal: connect, open and the listings succeed, the timer
\* keeps firing.
InitDaemon == Init /\ DAEMON /\ \A v \in RequiredNames : env[v] = "set"

NextDaemon ==
    \/ Main
    \/ ConnectDone(TRUE)
    \/ OpenInboxDone(TRUE)
    \/ \E i \in DOMAIN runs : FetchDone(i, TRUE)
    \/ \E i \in DOMAIN runs : ParseDone(i)
    \/ \E i \in DOMAIN runs, ok \in BOOLEAN : FlagDone(i, ok)
    \/ \E i \in DOMAIN runs, ok \in BOOLEAN : SendDone(i, ok)
    \/ \E i \in DOMAIN runs, ok \in BOOLEAN : DeleteDone(i, ok)
    \/ pollForever
    \/ \E u \in UIDs, c \in Contents : Arrive(u, c)

\* A step of main, of the pass in flight or of the timer once no pass is in
\* flight.  At most one of these is enabled in any state of the daemon.
Progress ==
    \/ Main
    \/ ConnectDone(TRUE)
    \/ OpenInboxDone(TRUE)
    \/ \E i \in DOMAIN runs : FetchDone(i, TRUE)
    \/ \E i \in DOMAIN runs : ParseDone(i)
    \/ \E i \in DOMAIN runs, ok \in BOOLEAN : FlagDone(i, ok)
    \/ \E i \in DOMAIN runs, ok \in BOOLEAN : SendDone(i, ok)
    \/ \E i \in DOMAIN runs, ok \in BOOLEAN : DeleteDone(i, ok)
    \/ ~busy /\ pollForever

\* Every awaited call settles and the timer fires again after a pass has
\* ended (weak fairness); for each message the relay send and the delete do
\* not fail forever (strong fairness of their success).
FairDaemon ==
    /\ WF_vars(Progress)
    /\ \A u \in UIDs :
          /\ SF_vars(\E i \in DOMAIN runs :
                        runs[i].pc = "sending" /\ Cur(i) = u /\ SendDone(i, TRUE))
          /\ SF_vars(\E i \in DOMAIN runs :
                        runs[i].pc = "deleting" /\ Cur(i) = u /\ DeleteDone(i, TRUE))

SpecDaemon == InitDaemon /\ [][NextDaemon]_vars /\ FairDaemon

\* The process with the guarantee that the client.logout() awaited by
\* shutdown settles.
ShutdownSpec == Spec /\ WF_vars(\E ok \in BOOLEAN : ShutdownLogoutDone(ok))

\* ------------------------------------------------- sender-filter probe
AddrChars == {"a", "B", "@"}
AllowChars == {"A", "b", ",", " "}

\* Sender information of the probe: an address of up to MaxAddrLen
\* characters, and a display text used when the address is empty.
ProbeEmails ==
    {[from |-> [address |-> a, text |-> t]] :
        a \in StringsUpTo(AddrChars, MaxAddrLen),
        t \in {<<>>, <<"a", "@", "b">>}}

InitFilter ==
    /\ env = [v \in RequiredNames |-> "set"]
    /\ ALLOWED_SENDER_DOMAINS \in StringsUpTo(AllowChars, MaxAllowLen)
    /\ DAEMON = FALSE
    /\ mainPc = "start"
    /\ exitStatus = "running"
    /\ diagnostic = <<>>
    /\ connectAttempted = FALSE
    /\ session = "none"
    /\ busy = FALSE
    /\ timerActive = FALSE
    /\ shutdownPc = "idle"
    /\ runs = <<>>
    /\ mbox = [u \in UIDs |-> "absent"]
    /\ content = [u \in UIDs |-> NoContent]
    /\ outcome = [u \in UIDs |-> "none"]
    /\ accepted = [u \in UIDs |-> 0]
    /\ passes = 0
    /\ pollLog = "none"
    /\ lastPass = NoPass
    /\ \E e \in ProbeEmails : probe = [email |-> e, result |-> "none"]

\* shouldForwardEmail is applied to the probe.
ApplyFilter ==
    /\ probe.result = "none"
    /\ probe' = [probe EXCEPT !.result =
                   IF shouldForwardEmail(probe.email) THEN "true" ELSE "false"]
    /\ UNCHANGED <<configVars, mainPc, exitStatus, diagnostic, connectAttempted,
                   session, busy, timerActive, shutdownPc, runs, mailVars,
                   passes, pollLog, lastPass>>

NextFilter == ApplyFilter

SpecFilter == InitFilter /\ [][NextFilter]_vars

\* ---------------------------------------------------- outgoing message
\* A JavaScript value that may be undefined; strings here are TLA+ strings.
Undefined == [def |-> FALSE, val |-> ""]
Val(s) == [def |-> TRUE, val |-> s]

\* x || d for a string-valued x: undefined and "" are falsy.
OrElse(x, d) == IF x.def /\ x.val # "" THEN x ELSE d

\* The configured FORWARD_FROM and FORWARD_TO addresses.
FORWARD_FROM == "forwarder@relay"
FORWARD_TO == "inbox@destination"

\* Variant: the attachments are not passed on.
forwardArgs_NoAttachments(parsed) ==
    [subject |-> OrElse(parsed.subject, Val("(no subject)")),
     text |-> OrElse(parsed.text, Val("")),
     html |-> OrElse(parsed.html, Undefined),
     attachments |-> <<>>]

\* The argument processUnseen passes to forwardMail.
forwardArgs(parsed) ==
    [subject |-> OrElse(parsed.subject, Val("(no subject)")),
     text |-> OrElse(parsed.text, Val("")),
     html |-> OrElse(parsed.html, Undefined),
     attachments |->
        LET atts == IF parsed.attachments.def THEN parsed.attachments.val ELSE <<>>
        IN [k \in DOMAIN atts |->
              [filename |-> atts[k].filename, content |-> atts[k].content]]]

\* mailOptions of forwardMail.
mailOptionsOf(email) ==
    [from |-> FORWARD_FROM,
     to |-> FORWARD_TO,
     subject |-> email.subject,
     text |-> email.text,
     html |-> email.html,
     attachments |-> email.attachments]

\* Attachments a decoded message may carry.
AttachmentValues ==
    { [filename |-> Val("a.txt"), content |-> "AAA", contentType |-> "text/plain"],
      [filename |-> Undefined, content |-> "", contentType |-> "image/png"] }

RECURSIVE SeqsUpTo(_, _)
SeqsUpTo(S, n) ==
    IF n = 0 THEN {<<>>}
    ELSE LET shorter == SeqsUpTo(S, n - 1) IN
         shorter \cup {Append(q, x) : q \in {t \in shorter : Len(t) = n - 1}, x \in S}

\* Decoded messages of the relay probe.
ParsedMessages ==
    [from : {"alice@source", FORWARD_FROM},
     to : {"bob@source", FORWARD_TO},
     subject : {Undefined, Val(""), Val("Hello")},
     text : {Undefined, Val(""), Val("body")},
     html : {Undefined, Val(""), Val("<p>body</p>")},
     attachments : {[def |-> FALSE, val |-> <<>>]} \cup
                   {[def |-> TRUE, val |-> q] : q \in SeqsUpTo(AttachmentValues, MaxAttach)}]

\* mailOptions before forwardMail has built them.
NoOptions ==
    [from |-> "", to |-> "", subject |-> Undefined, text |-> Undefined,
     html |-> Undefined, attachments |-> <<>>]

InitForward ==
    /\ env = [v \in RequiredNames |-> "set"]
    /\ ALLOWED_SENDER_DOMAINS = <<>>
    /\ DAEMON = FALSE
    /\ mainPc = "start"
    /\ exitStatus = "running"
    /\ diagnostic = <<>>
    /\ connectAttempted = FALSE
    /\ session = "none"
    /\ busy = FALSE
    /\ timerActive = FALSE
    /\ shutdownPc = "idle"
    /\ runs = <<>>
    /\ mbox = [u \in UIDs |-> "absent"]
    /\ content = [u \in UIDs |-> NoContent]
    /\ outcome = [u \in UIDs |-> "none"]
    /\ accepted = [u \in UIDs |-> 0]
    /\ passes = 0
    /\ pollLog = "none"
    /\ lastPass = NoPass
    /\ \E m \in ParsedMessages :
          probe = [parsed |-> m, result |-> "none", mailOptions |-> NoOptions]

\* processUnseen hands the decoded message to forwardMail, which builds
\* mailOptions for transporter.sendMail.
BuildMail ==
    /\ probe.result = "none"
    /\ probe' = [probe EXCEPT !.result = "built",
                              !.mailOptions = mailOptionsOf(forwardArgs(probe.parsed))]
    /\ UNCHANGED <<configVars, mainPc, exitStatus, diagnostic, connectAttempted,
                   session, busy, timerActive, shutdownPc, runs, mailVars,
                   passes, pollLog, lastPass>>

NextForward == BuildMail

SpecForward == InitForward /\ [][NextForward]_vars

\* ================================================================ claims
\* Positions of an activation inside a per-message attempt.
AttemptPcs == {"parsing", "flagging", "sending", "deleting"}

\* Terminal per-message states.
TerminalOutcomes ==
    {"DecodeFailed", "SeenMarked", "FlagFailed", "SendFailed", "Deleted", "DeleteFailed"}

\* The message decodes and the filter accepts it / rejects it.
Qualifies(u) == ~content[u].malformed /\ shouldForwardEmail(content[u])
Rejected(u) == ~content[u].malformed /\ ~shouldForwardEmail(content[u])

\* C1: a message is deleted only by an attempt whose relay send for that
\* same message has already returned success; a deleted message has been
\* accepted by the relay.
C1_DeleteOnlyAfterSend ==
    /\ [](\A u \in UIDs : mbox[u] = "deleted" => accepted[u] >= 1)
    /\ [][\A u \in UIDs :
            (mbox[u] # "deleted" /\ mbox'[u] = "deleted") =>
                \E i \in DOMAIN runs :
                    /\ runs[i].pc = "deleting"
                    /\ Cur(i) = u
                    /\ runs[i].sendOk
                    /\ accepted[u] >= 1]_vars

C1_Witness == \E u \in UIDs : mbox[u] = "deleted" /\ outcome[u] = "Deleted"

\* C2: a message whose send failed ends the attempt unseen and undeleted,
\* and a qualifying message the relay has never accepted is, over any number
\* of passes, never deleted and never marked seen.
C2_SendFailureLeavesMessage ==
    \A u \in UIDs :
        /\ outcome[u] = "SendFailed" => mbox[u] = "unseen"
        /\ (mbox[u] # "absent" /\ Qualifies(u) /\ accepted[u] = 0) => mbox[u] = "unseen"

\* A message failed to send in a scheduled pass that followed another
\* scheduled pass, and the relay has never accepted it.
C2_Witness ==
    \E u \in UIDs :
        /\ outcome[u] = "SendFailed"
        /\ accepted[u] = 0
        /\ passes = 2
        /\ runs = <<>>
        /\ lastPass.kind = "scheduled"
        /\ includes(lastPass.msgs, u)

\* C3 (as claimed): when the delete fails after a successful send, the same
\* attempt goes on to mark the message seen.
C3_DeleteFailureFallsBackToSeen ==
    [][\A i \in DOMAIN runs :
         (runs[i].pc = "deleting" /\ outcome'[Cur(i)] = "DeleteFailed") =>
            /\ i \in DOMAIN runs'
            /\ runs'[i].pc = "flagging"
            /\ runs'[i].idx = runs[i].idx]_vars

\* C4: a failure on one message does not end the pass: a pass throws only
\* before its loop, every message before the current one of a running pass
\* has a terminal state, a completed pass has brought every message of its
\* snapshot to a terminal state, and a message whose decode failed is unseen.
C4_PassIsolation ==
    /\ lastPass.result = "error" => lastPass.msgs = <<>>
    /\ \A i \in DOMAIN runs : \A j \in DOMAIN runs[i].msgs :
          j < runs[i].idx => outcome[runs[i].msgs[j]] \in TerminalOutcomes
    /\ (runs = <<>> /\ lastPass.result = "complete") =>
          \A j \in DOMAIN lastPass.msgs : outcome[lastPass.msgs[j]] \in TerminalOutcomes
    /\ \A u \in UIDs : outcome[u] = "DecodeFailed" => mbox[u] = "unseen"

\* A completed pass over two messages: the first failed to decode, the
\* second was forwarded and deleted or filtered and marked seen.
C4_Witness ==
    /\ runs = <<>>
    /\ lastPass.result = "complete"
    /\ Len(lastPass.msgs) = 2
    /\ outcome[lastPass.msgs[1]] = "DecodeFailed"
    /\ outcome[lastPass.msgs[2]] \in {"Deleted", "SeenMarked"}

\* C5: at most one pass is in flight; a pass starts only from a timer
\* callback that finds no pass running; a timer callback that finds a pass
\* running changes nothing but the log.
C5_SinglePassInFlight ==
    /\ [](Len(runs) <= 1)
    /\ [](timerActive => \A i \in DOMAIN runs : runs[i].kind = "scheduled")
    /\ [][passes' # passes =>
            (~busy /\ runs = <<>> /\ passes' = passes + 1 /\ Len(runs') = 1)]_vars
    /\ [][(busy /\ pollLog' = "skipped" /\ pollLog # "skipped") =>
            UNCHANGED <<configVars, mainPc, exitStatus, diagnostic,
                        connectAttempted, session, busy, timerActive,
                        shutdownPc, runs, mailVars, passes, lastPass>>]_vars

\* A timer callback was skipped while a pass is in flight.
C5_Witness == pollLog = "skipped" /\ Len(runs) = 1 /\ busy

\* C6 (as claimed): shutdown does not close the session and exit while a
\* message attempt is in flight; in particular it leaves no message whose
\* send succeeded and whose delete has not settled.
C6_ShutdownWaitsForAttempt ==
    shutdownPc = "done" =>
        \A i \in DOMAIN runs : ~(runs[i].pc = "deleting" /\ runs[i].sendOk)

\* C7: after a scheduled pass threw, the process has not exited with an
\* error, the guard is clear once no pass runs, and unless shutdown was
\* requested the timer is still armed, so the next callback starts a pass.
C7_PollErrorIsCaught ==
    (lastPass.kind = "scheduled" /\ lastPass.result = "error") =>
        /\ exitStatus \in {"running", "exit0"}
        /\ mainPc = "daemon"
        /\ runs = <<>> => ~busy
        /\ shutdownPc = "idle" => (Running /\ timerActive)

\* A scheduled pass threw and the next timer callback started a new pass.
C7_Witness ==
    /\ lastPass.kind = "scheduled"
    /\ lastPass.result = "error"
    /\ passes = 2
    /\ pollLog = "started"
    /\ Len(runs) = 1
    /\ busy

\* Index of the last occurrence of character c in s, 0 if none.
LastIndexOf(s, c) ==
    IF \E i \in DOMAIN s : s[i] = c
    THEN CHOOSE i \in DOMAIN s : s[i] = c /\ \A j \in (i+1)..Len(s) : s[j] # c
    ELSE 0

\* The reference predicate of the sender filter: the domain is what follows
\* the last '@'.
RefDomain(addr) ==
    LET i == LastIndexOf(addr, "@") IN
    IF i = 0 THEN <<>> ELSE toLowerCase(SubSeq(addr, i + 1, Len(addr)))

RefAllowSet(raw) ==
    {d \in {toLowerCase(trim(e)) : e \in {split(raw, ",")[i] : i \in DOMAIN split(raw, ",")}} :
        d # <<>>}

RefShouldForward(addr, raw) ==
    IF raw = <<>> THEN TRUE
    ELSE IF addr = <<>> \/ RefDomain(addr) = <<>> THEN FALSE
    ELSE RefDomain(addr) \in RefAllowSet(raw)

\* C8 (as claimed): the filter's result equals the reference predicate for
\* every sender address and allow-list.
C8_FilterMatchesReference ==
    probe.result # "none" =>
        ((probe.result = "true") <=>
            RefShouldForward(fromAddressOf(probe.email), ALLOWED_SENDER_DOMAINS))

\* C9: a message the filter rejects is never handed to the relay and never
\* deleted, no attempt on it reaches the send or the delete, and after a
\* failed seen-mark it is still unseen.
C9_FilteredNeverSentNorDeleted ==
    \A u \in UIDs :
        (mbox[u] # "absent" /\ Rejected(u)) =>
            /\ accepted[u] = 0
            /\ mbox[u] \in {"unseen", "seen"}
            /\ outcome[u] \in {"none", "SeenMarked", "FlagFailed"}
            /\ outcome[u] = "FlagFailed" => mbox[u] = "unseen"
            /\ outcome[u] = "SeenMarked" => mbox[u] = "seen"
            /\ \A i \in DOMAIN runs :
                  (runs[i].pc \in AttemptPcs /\ Cur(i) = u) =>
                      runs[i].pc \in {"parsing", "flagging"}

\* A rejected message whose seen-mark failed is being evaluated again by a
\* later pass.
C9_Witness ==
    \E u \in UIDs, i \in DOMAIN runs :
        /\ Rejected(u)
        /\ accepted[u] = 0
        /\ mbox[u] = "unseen"
        /\ lastPass.result = "complete"
        /\ includes(lastPass.msgs, u)
        /\ runs[i].pc = "flagging"
        /\ Cur(i) = u

\* The required settings that are unset or empty.
MissingSettings == {v \in RequiredNames : env[v] # "set"}

\* C10: with a required setting missing no connection is ever attempted and
\* no pass ever runs, and once main has run the process has exited with
\* status 1 and the diagnostic names exactly the missing settings.
C10_MissingSettingIsFatal ==
    /\ MissingSettings # {} =>
          /\ ~connectAttempted
          /\ session = "none"
          /\ runs = <<>>
          /\ passes = 0
          /\ lastPass = NoPass
          /\ \A u \in UIDs : accepted[u] = 0 /\ outcome[u] = "none"
          /\ exitStatus # "exit0"
          /\ mainPc # "start" =>
                /\ exitStatus = "exit1"
                /\ {diagnostic[k] : k \in DOMAIN diagnostic} = MissingSettings
                /\ Len(diagnostic) = Cardinality(MissingSettings)
    /\ MissingSettings = {} => diagnostic = <<>>

\* The process exited with status 1 naming two missing settings.
C10_Witness ==
    /\ exitStatus = "exit1"
    /\ Cardinality(MissingSettings) = 2
    /\ Len(diagnostic) = 2
    /\ env["SMTP_PASSWORD"] = "unset"
    /\ env["FORWARD_FROM"] = "empty"

\* C11 (as claimed): in non-daemon mode no scheduled pass ever runs, an
\* exit with status 0 follows a completed startup pass and a closed session,
\* and an exit with status 1 happens only when the connection or the
\* startup pass as a whole failed, never after a completed pass.
C11_NonDaemonExitStatus ==
    ~DAEMON =>
        /\ passes = 0
        /\ ~timerActive
        /\ exitStatus = "exit0" =>
              /\ lastPass.kind = "startup"
              /\ lastPass.result = "complete"
              /\ session = "closed"
              /\ runs = <<>>
        /\ (exitStatus = "exit1" /\ MissingSettings = {}) =>
              lastPass.result # "complete"

\* The text of a possibly undefined string: undefined counts as empty.
TextOf(x) == IF x.def THEN x.val ELSE ""

\* Sender, recipient, text, HTML body and attachments of the outgoing
\* message are as the claim says.
C12_Envelope(p, o) ==
    /\ o.from = FORWARD_FROM
    /\ o.to = FORWARD_TO
    /\ TextOf(o.text) = TextOf(p.text)
    /\ IF TextOf(p.html) # "" THEN o.html = p.html ELSE o.html = Undefined
    /\ LET atts == IF p.attachments.def THEN p.attachments.val ELSE <<>> IN
       /\ Len(o.attachments) = Len(atts)
       /\ \A k \in DOMAIN atts :
             /\ o.attachments[k].filename = atts[k].filename
             /\ o.attachments[k].content = atts[k].content

\* C12 (as claimed): the outgoing message has the configured sender and
\* recipient and carries subject, text, HTML body and attachments unchanged,
\* also when the source subject is empty or absent.
C12_ForwardKeepsSubject ==
    probe.result = "built" =>
        /\ C12_Envelope(probe.parsed, probe.mailOptions)
        /\ TextOf(probe.mailOptions.subject) = TextOf(probe.parsed.subject)

\* C12 (amended): as claimed, except that an empty or absent source subject
\* is replaced by "(no subject)".
C12_ForwardKeepsContent ==
    probe.result = "built" =>
        /\ C12_Envelope(probe.parsed, probe.mailOptions)
        /\ probe.mailOptions.subject =
              IF TextOf(probe.parsed.subject) = "" THEN Val("(no subject)")
              ELSE probe.parsed.subject

\* A built message whose source had other addresses, no subject, an HTML
\* body and two attachments.
C12_Witness ==
    /\ probe.result = "built"
    /\ probe.parsed.from # FORWARD_FROM
    /\ probe.parsed.to # FORWARD_TO
    /\ ~probe.parsed.subject.def
    /\ probe.parsed.html.def /\ probe.parsed.html.val # ""
    /\ probe.parsed.attachments.def
    /\ Len(probe.parsed.attachments.val) = 2
    /\ Len(probe.mailOptions.attachments) = 2

\* C13: once shutdown has been entered no pass is started, the timer is
\* cleared and the logout is awaited; the process then exits, with status 0
\* whether or not the logout succeeded.
C13_ShutdownStopsAndExits ==
    /\ [][shutdownPc # "idle" => (passes' = passes /\ Len(runs') <= Len(runs))]_vars
    /\ [][(shutdownPc = "idle" /\ shutdownPc' # "idle") =>
            (mainPc = "daemon" /\ shutdownPc' = "logout" /\ ~timerActive')]_vars
    /\ [](shutdownPc # "idle" => (DAEMON /\ ~timerActive))
    /\ [](shutdownPc = "done" => exitStatus = "exit0")
    /\ (shutdownPc = "logout") ~> (shutdownPc = "done" /\ exitStatus = "exit0")

\* Shutdown exited with status 0 after a scheduled pass had run, although
\* the logout failed and the session was left open.
C13_Witness ==
    /\ shutdownPc = "done"
    /\ exitStatus = "exit0"
    /\ session = "selected"
    /\ passes >= 1

\* C14 (as claimed): a termination signal never ends the process abruptly;
\* in every phase it is answered by the shutdown sequence.
C14_SignalRunsShutdown == exitStatus # "killed"

\* C15: a pass holds no snapshot and mutates nothing before its listing
\* returned; afterwards its snapshot (in UID order, without repetition) never
\* changes, its position moves one message at a time and only when the
\* current message reached a terminal state, only the current message of a
\* snapshot is ever flagged or deleted, and a pass returns from its loop
\* only at the last message.
C15_SnapshotThenSequential ==
    /\ [](\A i \in DOMAIN runs :
            IF runs[i].pc \in AttemptPcs
            THEN /\ runs[i].idx \in 1..Len(runs[i].msgs)
                 /\ \A j, k \in DOMAIN runs[i].msgs :
                       j < k => runs[i].msgs[j] < runs[i].msgs[k]
                 /\ \A j \in DOMAIN runs[i].msgs :
                       j > runs[i].idx => outcome[runs[i].msgs[j]] = "none"
            ELSE runs[i].msgs = <<>> /\ runs[i].idx = 0)
    /\ [][\A u \in UIDs :
            (mbox[u] # "absent" /\ mbox'[u] # mbox[u]) =>
                \E i \in DOMAIN runs :
                    runs[i].pc \in {"flagging", "deleting"} /\ Cur(i) = u]_vars
    /\ [][\A i \in DOMAIN runs :
            (runs[i].pc \in AttemptPcs /\ i \in DOMAIN runs'
                                       /\ runs'[i].pc \in AttemptPcs) =>
                /\ runs'[i].msgs = runs[i].msgs
                /\ \/ runs'[i].idx = runs[i].idx
                   \/ /\ runs'[i].idx = runs[i].idx + 1
                      /\ runs'[i].pc = "parsing"
                      /\ outcome'[Cur(i)] \in TerminalOutcomes]_vars
    /\ [][\A i \in DOMAIN runs :
            (runs[i].pc \in AttemptPcs /\ Len(runs') < Len(runs)) =>
                /\ runs[i].idx = Len(runs[i].msgs)
                /\ lastPass'.msgs = runs[i].msgs]_vars

\* A pass is at the last message of its snapshot while another message,
\* delivered after the listing, is unseen and has not been touched.
C15_Witness ==
    \E i \in DOMAIN runs, u \in UIDs :
        /\ runs[i].pc \in AttemptPcs
        /\ runs[i].idx = Len(runs[i].msgs)
        /\ ~includes(runs[i].msgs, u)
        /\ mbox[u] = "unseen"
        /\ outcome[u] = "none"
        /\ accepted[u] = 0

\* C16: in the daemon at work, every unseen message that decodes and passes
\* the filter is eventually accepted by the relay and deleted.
C16_EventuallyForwarded ==
    \A u \in UIDs :
        (mbox[u] = "unseen" /\ Qualifies(u)) ~> (mbox[u] = "deleted" /\ accepted[u] >= 1)

\* A message was removed by a scheduled pass after an earlier attempt on it
\* had failed past the send.
C16_Witness ==
    \E u \in UIDs :
        /\ mbox[u] = "deleted"
        /\ accepted[u] >= 2
        /\ lastPass.kind = "scheduled"
        /\ includes(lastPass.msgs, u)

\* C17 (as claimed): a message the relay has accepted is sent again only
\* after both its delete and a fallback seen-mark failed.  The attempt has
\* no seen-mark after a failed delete, so under the claim no message is
\* ever accepted by the relay twice.
C17_NoResendAfterDeleteFailure ==
    /\ [](\A u \in UIDs : accepted[u] <= 1)
    /\ [][\A i \in DOMAIN runs :
            (runs[i].pc = "parsing" /\ i \in DOMAIN runs'
                                    /\ runs'[i].pc = "sending") =>
                accepted[Cur(i)] = 0]_vars

\* C18: the guard is set exactly while a scheduled pass is in flight.
C18_BusyIffScheduledPass ==
    busy <=> (\E i \in DOMAIN runs : runs[i].kind = "scheduled")

\* The guard is clear, with the process running and the timer armed, after
\* two scheduled passes of which the last one threw.
C18_Witness ==
    /\ ~busy
    /\ Running
    /\ timerActive
    /\ runs = <<>>
    /\ passes = 2
    /\ lastPass.kind = "scheduled"
    /\ lastPass.result = "error"

====
